---- MODULE Spec2Model ----
(***************************************************************************)
(* The Ollama orchestrator: the request path (generateHandler ->           *)
(* TrackRequest -> ensureModelRunning -> startOllamaContainer) and the     *)
(* scaling loop (StartScalingManager -> scaleModelsBasedOnDemand ->        *)
(* scaleUpModel / scaleDownModel), sharing scalingLock, requestCounts,     *)
(* currentWorkers, nextPort and the sync.Map activeModels.                 *)
(*                                                                         *)
(* Every goroutine is a process with a program counter.  An action is one  *)
(* step of the code and is parameterised by the goroutine executing it, so *)
(* a function called from two places (sync.Mutex.Lock, startOllamaContainer)*)
(* is one action.  The container runtime (docker) and the metrics probe    *)
(* (nvidia-smi) are external: a call to either returns any of its outcomes.*)
(***************************************************************************)
EXTENDS Integers, Sequences, FiniteSets, TLC

\* ------------------------------------------------------------------ bounds

\* Number of request goroutines that can be inside generateHandler at once.
NumHandlers == 2

\* Total number of requests accepted over a run.
MaxRequests == 3

\* Largest per-model value of currentWorkers a pre-scaled pool starts with
\* (InitScaled only).
MaxWorkers == 2

\* ------------------------------------------------------- program constants

\* The largest request count a cycle is made to decide on (the specifications
\* of a single decision).
MaxDemand == 16

\* The largest count scaleUpModel is called with by itself.
MaxCount == 3

basePort == 11434

InitialNextPort == 11434

\* time.NewTicker: the ticker's channel holds at most one undelivered tick;
\* a tick that finds the slot full is dropped.
TickerCap == 1

GPUThreshold == 70

RequestThreshold == 10

RequestDivisor == 5

\* int((VRAMUsed * 0.9) / 4000), in integer arithmetic: (VRAMUsed * 9) \div 40000
VRAMNumerator == 9

VRAMDenominator == 40000

\* ------------------------------------------------------------- input sets

Models == {"llama", "mistral"}

Handlers == 1..NumHandlers

Scaler == 0

Procs == Handlers \cup {Scaler}

\* scalingLock's value when nobody holds it.
Free == -1

NoModel == "none"

\* The absent key of activeModels, and an unset local port.
NoPort == 0

\* getSystemMetrics: readings nvidia-smi can give.  The probe failing yields
\* ScalingMetrics{} (all zero), which is the first sample; the second caps
\* desiredWorkers at 1, the third lets it reach 2 and more.
MetricsSamples ==
    { [GPUUtilization |-> 0, VRAMUsed |-> 0],
      [GPUUtilization |-> 0, VRAMUsed |-> 5000],
      [GPUUtilization |-> 80, VRAMUsed |-> 20000] }

ZeroMetrics == [GPUUtilization |-> 0, VRAMUsed |-> 0]

VARIABLES
    pc,             \* pc[p]: where goroutine p is
    model,          \* model[p]: the model p is working on (req.Model, or the range variable)
    port,           \* port[p]: p's local variable port
    tmp,            \* tmp[h]: the value of requestCounts[model] read by requestCounts[model]++
    scalingLock,    \* Free, or the goroutine that locked it
    currentWorkers, \* model -> worker count
    requestCounts,  \* model -> request count
    nextPort,
    activeModels,   \* the sync.Map: model -> port, NoPort when the key is absent
    tickChan,       \* number of ticks buffered in ticker.C
    scMetrics,      \* the cycle's metrics
    scTodo,         \* models of the cycle's range loop not yet visited
    scRequests,     \* the cycle's local requests
    scDesired,      \* the cycle's local desiredWorkers
    scCount,        \* scaleUpModel's parameter count
    scI,            \* scaleUpModel's loop variable i
    containers,     \* the runtime: the containers running, in start order
    hRes,           \* hRes[h]: what the handler's last request was answered with
    reqs,           \* number of requests accepted so far
    startCalls,     \* history: per model, number of docker run calls issued
    startFails,     \* history: per model, number of docker run calls that failed
    recorded,       \* history: per model, TrackRequest calls completed since the last reset
    allocated,      \* history: the ports handed out for provisioning, in order
    lastScaleDown   \* history: the last scaleDownModel call, with the registry before and after

vars == << pc, model, port, tmp, scalingLock, currentWorkers, requestCounts, nextPort,
           activeModels, tickChan, scMetrics, scTodo, scRequests, scDesired, scCount, scI,
           containers, hRes, reqs, startCalls, startFails, recorded, allocated,
           lastScaleDown >>

NoResult == [status |-> "none", port |-> NoPort]

NoCall == [model |-> NoModel]

\* ------------------------------------------------------------ pure helpers

\* countActiveModels: the number of keys of activeModels.
countActiveModels(am) == Cardinality({ m \in Models : am[m] # NoPort })

\* getActiveModels: the keys of activeModels (sync.Map.Range gives them in no
\* fixed order, so the range loop visits them in any order).
getActiveModels(am) == { m \in Models : am[m] # NoPort }

\* getModelPorts: the values of the entries whose key is model.  A sync.Map
\* holds one value per key, so the result has at most one element.
getModelPorts(am, m) == IF am[m] # NoPort THEN << am[m] >> ELSE << >>

\* calculateDesiredWorkers.  VRAMUsed is a whole number of MB (nvidia-smi's
\* memory.used with nounits), so int(VRAMUsed*0.9/4000) is (VRAMUsed*9) \div 40000.
calculateDesiredWorkersAtLeastOne(requests, metrics) ==
    LET base1 == IF metrics.GPUUtilization > GPUThreshold THEN 2 ELSE 1
        base2 == IF requests > RequestThreshold
                 THEN base1 + (requests \div RequestDivisor) ELSE base1
        maxByVRAM == (metrics.VRAMUsed * VRAMNumerator) \div VRAMDenominator
    IN  IF base2 > maxByVRAM THEN (IF maxByVRAM < 1 THEN 1 ELSE maxByVRAM) ELSE base2

calculateDesiredWorkersAtThreshold(requests, metrics) ==
    LET base1 == IF metrics.GPUUtilization > GPUThreshold THEN 2 ELSE 1
        base2 == IF requests >= RequestThreshold
                 THEN base1 + (requests \div RequestDivisor) ELSE base1
        maxByVRAM == (metrics.VRAMUsed * VRAMNumerator) \div VRAMDenominator
    IN  IF base2 > maxByVRAM THEN maxByVRAM ELSE base2

calculateDesiredWorkers(requests, metrics) ==
    LET base0 == 1
        base1 == IF metrics.GPUUtilization > GPUThreshold THEN base0 + 1 ELSE base0
        base2 == IF requests > RequestThreshold
                 THEN base1 + (requests \div RequestDivisor) ELSE base1
        maxByVRAM == (metrics.VRAMUsed * VRAMNumerator) \div VRAMDenominator
    IN  IF base2 > maxByVRAM THEN maxByVRAM ELSE base2

\* The runtime's view: the number of running containers of a model.
LiveWorkers(cs, m) == Cardinality({ i \in 1..Len(cs) : cs[i].model = m })

\* docker stop ollama-<model>-<port> succeeding: the most recently started
\* running container of that name is gone.
RemoveContainer(cs, m, q) ==
    LET hits == { i \in 1..Len(cs) : cs[i].model = m /\ cs[i].port = q }
    IN  IF hits = {} THEN cs
        ELSE LET k == CHOOSE i \in hits : \A j \in hits : j <= i
             IN  SubSeq(cs, 1, k - 1) \o SubSeq(cs, k + 1, Len(cs))

\* scaleDownModel's loop condition: i < count && len(ports) > 1.
ScaleDownGuardOffByOne(i, count, ports) == i < count /\ Len(ports) > 0

ScaleDownGuard(i, count, ports) == i < count /\ Len(ports) > 1

\* stopOllamaContainer's first statement: activeModels.Delete(model).
StopDelete(am, m) == [am EXCEPT ![m] = NoPort]

\* One iteration of scaleDownModel's loop, lines 103-109, for port q:
\* stopOllamaContainer deletes the model's entry and then runs docker stop;
\* on an error the iteration is over (continue), else currentWorkers[model]
\* is decremented.  st = [am, cw, cs, n, f] is the registry, the worker
\* counts, the runtime's containers, the number of docker stop calls issued
\* and the number of them that failed.
ScaleDownIteration(st, m, q, ok) ==
    IF ok
    THEN [am |-> StopDelete(st.am, m),
          cw |-> [st.cw EXCEPT ![m] = @ - 1],
          cs |-> RemoveContainer(st.cs, m, q),
          n  |-> st.n + 1,
          f  |-> st.f]
    ELSE [am |-> StopDelete(st.am, m), cw |-> st.cw, cs |-> st.cs,
          n  |-> st.n + 1, f |-> st.f + 1]

\* scaleDownModel's loop from iteration i on; stops[i+1] is whether the
\* docker stop of iteration i succeeds.  ports is read once, before the loop,
\* and the loop always takes its last element.
RECURSIVE ScaleDownLoop(_, _, _, _, _, _)
ScaleDownLoop(st, m, ports, count, stops, i) ==
    IF ScaleDownGuard(i, count, ports)
    THEN ScaleDownLoop(ScaleDownIteration(st, m, ports[Len(ports)], stops[i + 1]),
                       m, ports, count, stops, i + 1)
    ELSE st

\* scaleDownModel(model, count).
scaleDownModel(st, m, count, stops) ==
    ScaleDownLoop(st, m, getModelPorts(st.am, m), count, stops, 0)

\* ------------------------------------------------------------------- state

Init ==
    /\ pc = [p \in Procs |-> IF p = Scaler THEN "wait" ELSE "idle"]
    /\ model = [p \in Procs |-> NoModel]
    /\ port = [p \in Procs |-> NoPort]
    /\ tmp = [h \in Handlers |-> 0]
    /\ scalingLock = Free
    /\ currentWorkers = [m \in Models |-> 0]
    /\ requestCounts = [m \in Models |-> 0]
    /\ nextPort = InitialNextPort
    /\ activeModels = [m \in Models |-> NoPort]
    /\ tickChan = 0
    /\ scMetrics = ZeroMetrics
    /\ scTodo = {}
    /\ scRequests = 0
    /\ scDesired = 0
    /\ scCount = 0
    /\ scI = 0
    /\ containers = << >>
    /\ hRes = [h \in Handlers |-> NoResult]
    /\ reqs = 0
    /\ startCalls = [m \in Models |-> 0]
    /\ startFails = [m \in Models |-> 0]
    /\ recorded = [m \in Models |-> 0]
    /\ allocated = << >>
    /\ lastScaleDown = NoCall

\* ------------------------------------------------------------ request path

\* generateHandler, lines 23-30: a request for model m is decoded and the
\* handler calls TrackRequest.  net/http serves each request on a goroutine of
\* its own; which of the idle ones it is makes no difference, so it is the
\* first.
Receive(h, m) ==
    /\ pc[h] = "idle"
    /\ \A g \in Handlers : g < h => pc[g] # "idle"
    /\ reqs < MaxRequests
    /\ reqs' = reqs + 1
    /\ pc' = [pc EXCEPT ![h] = "TrackRequest"]
    /\ model' = [model EXCEPT ![h] = m]
    /\ hRes' = [hRes EXCEPT ![h] = NoResult]
    /\ UNCHANGED << port, tmp, scalingLock, currentWorkers, requestCounts, nextPort,
                    activeModels, tickChan, scMetrics, scTodo, scRequests, scDesired,
                    scCount, scI, containers, startCalls, startFails, recorded,
                    allocated, lastScaleDown >>

\* sync.Mutex.Lock returns only when the mutex is unlocked; the mutex is not
\* reentrant, whoever the caller.
MutexNeverBlocks == TRUE

MutexLockable == scalingLock = Free

\* scalingLock.Lock() at its three call sites:
\*   TrackRequest (line 39): the caller then reads requestCounts[model];
\*   scaleModelsBasedOnDemand (line 45);
\*   findAvailablePort (line 151), called by scaleUpModel (line 90): the
\*   function's whole critical section, port := nextPort; nextPort++, and its
\*   deferred Unlock follow in the same step, and scaleUpModel goes on to call
\*   startOllamaContainer(model, port).
MutexLock(p) ==
    /\ pc[p] \in {"TrackRequest", "scaleModelsBasedOnDemand", "findAvailablePort"}
    /\ MutexLockable
    /\ IF pc[p] = "TrackRequest"
       THEN /\ scalingLock' = p
            /\ tmp' = [tmp EXCEPT ![p] = requestCounts[model[p]]]
            /\ pc' = [pc EXCEPT ![p] = "incr"]
            /\ UNCHANGED << port, nextPort, startCalls, allocated >>
       ELSE IF pc[p] = "scaleModelsBasedOnDemand"
       THEN /\ scalingLock' = p
            /\ pc' = [pc EXCEPT ![p] = "getActiveModels"]
            /\ UNCHANGED << port, tmp, nextPort, startCalls, allocated >>
       ELSE /\ scalingLock' = Free
            /\ port' = [port EXCEPT ![p] = nextPort]
            /\ nextPort' = nextPort + 1
            /\ allocated' = Append(allocated, nextPort)
            /\ startCalls' = [startCalls EXCEPT ![model[p]] = @ + 1]
            /\ pc' = [pc EXCEPT ![p] = "dockerRun"]
            /\ UNCHANGED tmp
    /\ UNCHANGED << model, currentWorkers, requestCounts, activeModels, tickChan,
                    scMetrics, scTodo, scRequests, scDesired, scCount, scI, containers,
                    hRes, reqs, startFails, recorded, lastScaleDown >>

\* What scalingLock is when TrackRequest has returned (defer scalingLock.Unlock()).
TrackRequestKeepsLock(h) == h

TrackRequestUnlock(h) == Free

\* TrackRequest, lines 41-42: requestCounts[model]++ stores the value read
\* plus one; the deferred Unlock runs; generateHandler calls ensureModelRunning.
TrackRequestIncr(h) ==
    /\ pc[h] = "incr"
    /\ requestCounts' = [requestCounts EXCEPT ![model[h]] = tmp[h] + 1]
    /\ recorded' = [recorded EXCEPT ![model[h]] = @ + 1]
    /\ tmp' = [tmp EXCEPT ![h] = 0]
    /\ scalingLock' = TrackRequestUnlock(h)
    /\ pc' = [pc EXCEPT ![h] = "Load"]
    /\ UNCHANGED << model, port, currentWorkers, nextPort, activeModels, tickChan,
                    scMetrics, scTodo, scRequests, scDesired, scCount, scI, containers,
                    hRes, reqs, startCalls, startFails, allocated, lastScaleDown >>

LoadNeverHits(h) == FALSE

\* ensureModelRunning, line 54: the key exists.
LoadHit(h) == activeModels[model[h]] # NoPort

\* ensureModelRunning, lines 54-56: activeModels.Load(model).  When the key
\* exists the handler answers with its port (forwardRequestToOllama, not
\* modelled, changes no state of the pool).
EnsureLoad(h) ==
    /\ pc[h] = "Load"
    /\ IF LoadHit(h)
       THEN /\ hRes' = [hRes EXCEPT ![h] = [status |-> "ok", port |-> activeModels[model[h]]]]
            /\ pc' = [pc EXCEPT ![h] = "idle"]
            /\ model' = [model EXCEPT ![h] = NoModel]
       ELSE /\ pc' = [pc EXCEPT ![h] = "countActiveModels"]
            /\ UNCHANGED << hRes, model >>
    /\ UNCHANGED << port, tmp, scalingLock, currentWorkers, requestCounts, nextPort,
                    activeModels, tickChan, scMetrics, scTodo, scRequests, scDesired,
                    scCount, scI, containers, reqs, startCalls, startFails, recorded,
                    allocated, lastScaleDown >>

\* ensureModelRunning, lines 58-59: port := basePort + countActiveModels(),
\* and startOllamaContainer(model, port) is called.
EnsureCount(h) ==
    /\ pc[h] = "countActiveModels"
    /\ port' = [port EXCEPT ![h] = basePort + countActiveModels(activeModels)]
    /\ allocated' = Append(allocated, basePort + countActiveModels(activeModels))
    /\ startCalls' = [startCalls EXCEPT ![model[h]] = @ + 1]
    /\ pc' = [pc EXCEPT ![h] = "dockerRun"]
    /\ UNCHANGED << model, tmp, scalingLock, currentWorkers, requestCounts, nextPort,
                    activeModels, tickChan, scMetrics, scTodo, scRequests, scDesired,
                    scCount, scI, containers, hRes, reqs, startFails, recorded,
                    lastScaleDown >>

\* scaleUpModel's loop, lines 89-97, after one iteration: i++, and either the
\* next findAvailablePort or, the loop over, line 62 of the cycle.
ScaleUpNextPc == IF scI + 1 < scCount THEN "findAvailablePort" ELSE "reset"

ErrIgnored(ok) == FALSE

\* startOllamaContainer, lines 73-75: if err != nil { return err }.
ErrReturned(ok) == ~ok

FailedStartRetry(h) ==
    [pc |-> "countActiveModels", model |-> model[h], res |-> NoResult]

\* ensureModelRunning, lines 59-61, and generateHandler, lines 32-35: the
\* error is returned and answered with 500; the request is over.
FailedStartReturn(h) ==
    [pc |-> "idle", model |-> NoModel, res |-> [status |-> "error", port |-> NoPort]]

\* startOllamaContainer, lines 66-75: docker run returns, with success (the
\* container runs from now on) or with an error, which the function returns:
\* ensureModelRunning hands it to generateHandler, which answers 500;
\* scaleUpModel logs it and continues with its next iteration.
DockerRun(p, ok) ==
    /\ pc[p] = "dockerRun"
    /\ containers' = IF ok THEN Append(containers, [model |-> model[p], port |-> port[p]])
                    ELSE containers
    /\ startFails' = IF ok THEN startFails ELSE [startFails EXCEPT ![model[p]] = @ + 1]
    /\ IF ~ErrReturned(ok)
       THEN /\ pc' = [pc EXCEPT ![p] = "Store"]
            /\ UNCHANGED << model, port, hRes, scI >>
       ELSE /\ port' = [port EXCEPT ![p] = NoPort]
            /\ IF p = Scaler
               THEN /\ scI' = scI + 1
                    /\ pc' = [pc EXCEPT ![p] = ScaleUpNextPc]
                    /\ UNCHANGED << model, hRes >>
               ELSE /\ hRes' = [hRes EXCEPT ![p] = FailedStartReturn(p).res]
                    /\ pc' = [pc EXCEPT ![p] = FailedStartReturn(p).pc]
                    /\ model' = [model EXCEPT ![p] = FailedStartReturn(p).model]
                    /\ UNCHANGED scI
    /\ UNCHANGED << tmp, scalingLock, currentWorkers, requestCounts, nextPort,
                    activeModels, tickChan, scMetrics, scTodo, scRequests, scDesired,
                    scCount, reqs, startCalls, recorded, allocated, lastScaleDown >>

\* startOllamaContainer, lines 82-83: activeModels.Store(model, port) replaces
\* the model's entry, and nil is returned: ensureModelRunning returns the port
\* (lines 62, 37); scaleUpModel increments currentWorkers[model] (line 95).
Store(p) ==
    /\ pc[p] = "Store"
    /\ activeModels' = [activeModels EXCEPT ![model[p]] = port[p]]
    /\ port' = [port EXCEPT ![p] = NoPort]
    /\ IF p = Scaler
       THEN /\ currentWorkers' = [currentWorkers EXCEPT ![model[p]] = @ + 1]
            /\ scI' = scI + 1
            /\ pc' = [pc EXCEPT ![p] = ScaleUpNextPc]
            /\ UNCHANGED << model, hRes >>
       ELSE /\ hRes' = [hRes EXCEPT ![p] = [status |-> "ok", port |-> port[p]]]
            /\ pc' = [pc EXCEPT ![p] = "idle"]
            /\ model' = [model EXCEPT ![p] = NoModel]
            /\ UNCHANGED << currentWorkers, scI >>
    /\ UNCHANGED << tmp, scalingLock, requestCounts, nextPort, tickChan, scMetrics,
                    scTodo, scRequests, scDesired, scCount, containers, reqs,
                    startCalls, startFails, recorded, allocated, lastScaleDown >>

\* ------------------------------------------------------------ scaling loop

\* The runtime's ticker: every period a tick is sent to ticker.C without
\* blocking; it is dropped when the channel's slot is taken.
TickerUnbounded == tickChan + 1

TickerSend == IF tickChan < TickerCap THEN tickChan + 1 ELSE tickChan

TickFire ==
    /\ tickChan' = TickerSend
    /\ UNCHANGED << pc, model, port, tmp, scalingLock, currentWorkers, requestCounts,
                    nextPort, activeModels, scMetrics, scTodo, scRequests, scDesired,
                    scCount, scI, containers, hRes, reqs, startCalls, startFails,
                    recorded, allocated, lastScaleDown >>

\* StartScalingManager, lines 31-32: for range ticker.C receives a tick and
\* calls scaleModelsBasedOnDemand.
TickReceive ==
    /\ pc[Scaler] = "wait"
    /\ tickChan > 0
    /\ tickChan' = tickChan - 1
    /\ pc' = [pc EXCEPT ![Scaler] = "scaleModelsBasedOnDemand"]
    /\ UNCHANGED << model, port, tmp, scalingLock, currentWorkers, requestCounts,
                    nextPort, activeModels, scMetrics, scTodo, scRequests, scDesired,
                    scCount, scI, containers, hRes, reqs, startCalls, startFails,
                    recorded, allocated, lastScaleDown >>

\* scaleModelsBasedOnDemand, lines 48-49: one metrics reading for the cycle
\* (the probe's outcome does not depend on the pool) and the keys of
\* activeModels.
Snapshot(ms) ==
    /\ pc[Scaler] = "getActiveModels"
    /\ scMetrics' = ms
    /\ scTodo' = getActiveModels(activeModels)
    /\ pc' = [pc EXCEPT ![Scaler] = "range"]
    /\ UNCHANGED << model, port, tmp, scalingLock, currentWorkers, requestCounts,
                    nextPort, activeModels, tickChan, scRequests, scDesired, scCount,
                    scI, containers, hRes, reqs, startCalls, startFails, recorded,
                    allocated, lastScaleDown >>

\* scaleModelsBasedOnDemand, lines 51-60, for the next model of the range:
\* requests, workers and desiredWorkers are computed; scaleUpModel is entered
\* (its first statement is the call of findAvailablePort), or scaleDownModel
\* runs, or nothing is to do.
Decide(m) ==
    /\ pc[Scaler] = "range"
    /\ m \in scTodo
    /\ LET requests == requestCounts[m]
           workers  == currentWorkers[m]
           desired  == calculateDesiredWorkers(requests, scMetrics)
       IN  /\ model' = [model EXCEPT ![Scaler] = m]
           /\ scRequests' = requests
           /\ scDesired' = desired
           /\ IF desired > workers
              THEN /\ scCount' = desired - workers
                   /\ scI' = 0
                   /\ pc' = [pc EXCEPT ![Scaler] = "findAvailablePort"]
                   /\ UNCHANGED << activeModels, currentWorkers, containers,
                                   lastScaleDown >>
              ELSE IF desired < workers
              THEN /\ \E stops \in [1..(workers - desired) -> BOOLEAN] :
                        LET st == scaleDownModel([am |-> activeModels,
                                                  cw |-> currentWorkers,
                                                  cs |-> containers,
                                                  n  |-> 0,
                                                  f  |-> 0],
                                                 m, workers - desired, stops)
                        IN  /\ activeModels' = st.am
                            /\ currentWorkers' = st.cw
                            /\ containers' = st.cs
                            /\ lastScaleDown' = [model |-> m,
                                                 count |-> workers - desired,
                                                 desired |-> desired,
                                                 before |-> activeModels,
                                                 after |-> st.am,
                                                 liveBefore |-> LiveWorkers(containers, m),
                                                 liveAfter |-> LiveWorkers(st.cs, m),
                                                 workersBefore |-> workers,
                                                 workersAfter |-> st.cw[m],
                                                 stopCalls |-> st.n,
                                                 stopFails |-> st.f]
                   /\ pc' = [pc EXCEPT ![Scaler] = "reset"]
                   /\ UNCHANGED << scCount, scI >>
              ELSE /\ pc' = [pc EXCEPT ![Scaler] = "reset"]
                   /\ UNCHANGED << scCount, scI, activeModels, currentWorkers,
                                   containers, lastScaleDown >>
    /\ UNCHANGED << port, tmp, scalingLock, requestCounts, nextPort, tickChan,
                    scMetrics, scTodo, hRes, reqs, startCalls, startFails, recorded,
                    allocated >>

\* scaleModelsBasedOnDemand, line 62: requestCounts[model] = 0, and the range
\* goes to its next model.
ResetCounter ==
    /\ pc[Scaler] = "reset"
    /\ requestCounts' = [requestCounts EXCEPT ![model[Scaler]] = 0]
    /\ recorded' = [recorded EXCEPT ![model[Scaler]] = 0]
    /\ scTodo' = scTodo \ {model[Scaler]}
    /\ model' = [model EXCEPT ![Scaler] = NoModel]
    /\ scRequests' = 0
    /\ scDesired' = 0
    /\ scCount' = 0
    /\ scI' = 0
    /\ pc' = [pc EXCEPT ![Scaler] = "range"]
    /\ UNCHANGED << port, tmp, scalingLock, currentWorkers, nextPort, activeModels,
                    tickChan, scMetrics, containers, hRes, reqs, startCalls,
                    startFails, allocated, lastScaleDown >>

\* scaleModelsBasedOnDemand, lines 63-64 and 46: the range is over, the
\* deferred Unlock runs, and the loop of StartScalingManager waits for the
\* next tick.
CycleReturn ==
    /\ pc[Scaler] = "range"
    /\ scTodo = {}
    /\ scalingLock' = Free
    /\ scMetrics' = ZeroMetrics
    /\ pc' = [pc EXCEPT ![Scaler] = "wait"]
    /\ UNCHANGED << model, port, tmp, currentWorkers, requestCounts, nextPort,
                    activeModels, tickChan, scTodo, scRequests, scDesired, scCount,
                    scI, containers, hRes, reqs, startCalls, startFails, recorded,
                    allocated, lastScaleDown >>

\* ------------------------------------------------------------ specification

Next ==
    \/ \E h \in Handlers, m \in Models : Receive(h, m)
    \/ \E p \in Procs : MutexLock(p)
    \/ \E h \in Handlers : TrackRequestIncr(h)
    \/ \E h \in Handlers : EnsureLoad(h)
    \/ \E h \in Handlers : EnsureCount(h)
    \/ \E p \in Procs, ok \in BOOLEAN : DockerRun(p, ok)
    \/ \E p \in Procs : Store(p)
    \/ TickFire
    \/ TickReceive
    \/ \E ms \in MetricsSamples : Snapshot(ms)
    \/ \E m \in Models : Decide(m)
    \/ ResetCounter
    \/ CycleReturn

Spec == Init /\ [][Next]_vars

\* Every goroutine that can take a step eventually takes one (the Go
\* scheduler), a goroutine waiting for the mutex gets it if it is unlocked
\* again and again (sync.Mutex's starvation mode), and the ticker keeps
\* ticking.  Requests arrive or not, as the clients please.
ProcStep(p) ==
    \/ TrackRequestIncr(p)
    \/ EnsureLoad(p)
    \/ EnsureCount(p)
    \/ \E ok \in BOOLEAN : DockerRun(p, ok)
    \/ Store(p)

ScalerStep ==
    \/ TickReceive
    \/ \E ms \in MetricsSamples : Snapshot(ms)
    \/ \E m \in Models : Decide(m)
    \/ ResetCounter
    \/ CycleReturn
    \/ \E ok \in BOOLEAN : DockerRun(Scaler, ok)
    \/ Store(Scaler)

Fairness ==
    /\ \A h \in Handlers : WF_vars(ProcStep(h))
    /\ \A p \in Procs : SF_vars(MutexLock(p))
    /\ WF_vars(ScalerStep)
    /\ WF_vars(TickFire)

FairSpec == Init /\ [][Next]_vars /\ Fairness

\* A pool that scaleUpModel has already grown: for each model in turn,
\* scaleUpModel(model, w[model]) was run by itself with every start succeeding,
\* so the model has w[model] containers on consecutive ports from nextPort,
\* its registry entry is the last of them and currentWorkers[model] = w[model].
\* The traffic that grew the pool is over: one more request can arrive.
ModelOrder == << "llama", "mistral" >>

RECURSIVE PreScaled(_, _, _)
PreScaled(k, w, st) ==
    IF k > Len(ModelOrder) THEN st
    ELSE LET m  == ModelOrder[k]
             ps == [i \in 1..w[m] |-> st.np + i - 1]
         IN  PreScaled(k + 1, w,
                 [am |-> IF w[m] > 0 THEN [st.am EXCEPT ![m] = st.np + w[m] - 1] ELSE st.am,
                  cs |-> st.cs \o [i \in 1..w[m] |-> [model |-> m, port |-> ps[i]]],
                  al |-> st.al \o ps,
                  np |-> st.np + w[m]])

InitScaled ==
    \E w \in [Models -> 0..MaxWorkers] :
        LET st == PreScaled(1, w, [am |-> [m \in Models |-> NoPort], cs |-> << >>,
                                   al |-> << >>, np |-> InitialNextPort])
        IN  /\ pc = [p \in Procs |-> IF p = Scaler THEN "wait" ELSE "idle"]
            /\ model = [p \in Procs |-> NoModel]
            /\ port = [p \in Procs |-> NoPort]
            /\ tmp = [h \in Handlers |-> 0]
            /\ scalingLock = Free
            /\ currentWorkers = w
            /\ requestCounts = [m \in Models |-> 0]
            /\ nextPort = st.np
            /\ activeModels = st.am
            /\ tickChan = 0
            /\ scMetrics = ZeroMetrics
            /\ scTodo = {}
            /\ scRequests = 0
            /\ scDesired = 0
            /\ scCount = 0
            /\ scI = 0
            /\ containers = st.cs
            /\ hRes = [h \in Handlers |-> NoResult]
            /\ reqs = MaxRequests - 1
            /\ startCalls = w
            /\ startFails = [m \in Models |-> 0]
            /\ recorded = [m \in Models |-> 0]
            /\ allocated = st.al
            /\ lastScaleDown = NoCall

\* The same program started from a pool scaleUpModel has already grown.
SpecScaled == InitScaled /\ [][Next]_vars

\* One decision of a cycle, lines 51-60, on a demand and a reading of any
\* size: model m was provisioned by the router on basePort, r requests for it
\* were counted since, and the cycle (holding the mutex) has read the metrics
\* and is about to visit m.
CalcGPU == {0, 70, 71, 100}

CalcVRAM == {0, 4000, 4444, 4445, 8889, 13334, 20000}

CalcMetrics == [GPUUtilization : CalcGPU, VRAMUsed : CalcVRAM]

InitCalc ==
    \E m \in Models, r \in 0..MaxDemand, ms \in CalcMetrics :
        /\ pc = [p \in Procs |-> IF p = Scaler THEN "range" ELSE "idle"]
        /\ model = [p \in Procs |-> NoModel]
        /\ port = [p \in Procs |-> NoPort]
        /\ tmp = [h \in Handlers |-> 0]
        /\ scalingLock = Scaler
        /\ currentWorkers = [k \in Models |-> 0]
        /\ requestCounts = [k \in Models |-> IF k = m THEN r ELSE 0]
        /\ nextPort = InitialNextPort
        /\ activeModels = [k \in Models |-> IF k = m THEN basePort ELSE NoPort]
        /\ tickChan = 0
        /\ scMetrics = ms
        /\ scTodo = {m}
        /\ scRequests = 0
        /\ scDesired = 0
        /\ scCount = 0
        /\ scI = 0
        /\ containers = << [model |-> m, port |-> basePort] >>
        /\ hRes = [h \in Handlers |-> NoResult]
        /\ reqs = r
        /\ startCalls = [k \in Models |-> IF k = m THEN 1 ELSE 0]
        /\ startFails = [k \in Models |-> 0]
        /\ recorded = [k \in Models |-> IF k = m THEN r ELSE 0]
        /\ allocated = << basePort >>
        /\ lastScaleDown = NoCall

NextCalc == \E m \in Models : Decide(m)

SpecCalc == InitCalc /\ [][NextCalc]_vars

\* The pool after the router has provisioned the models of act, one request
\* each, in ModelOrder: the k-th of them runs on basePort + k - 1.
RouterPort(act, m) ==
    basePort + Cardinality({ i \in 1..Len(ModelOrder) :
                               /\ ModelOrder[i] \in act
                               /\ \E j \in 1..Len(ModelOrder) : j > i /\ ModelOrder[j] = m })

RouterPool(act) ==
    LET ord == IF act = Models THEN ModelOrder
               ELSE [i \in 1..Cardinality(act) |-> CHOOSE m \in act : TRUE]
    IN  [am |-> [m \in Models |-> IF m \in act THEN RouterPort(act, m) ELSE NoPort],
         cs |-> [i \in 1..Len(ord) |-> [model |-> ord[i], port |-> RouterPort(act, ord[i])]],
         al |-> [i \in 1..Len(ord) |-> RouterPort(act, ord[i])],
         sc |-> [m \in Models |-> IF m \in act THEN 1 ELSE 0]]

\* scaleUpModel(m, count), lines 88-98, run by itself with the mutex unlocked
\* (in a cycle it is entered with the mutex held and stops at its first
\* findAvailablePort), for a model m the router has provisioned.  The loop's
\* steps are the scaler's MutexLock (findAvailablePort), DockerRun and Store;
\* it has returned when it stands at "reset".
InitScaleUp ==
    \E act \in SUBSET Models, count \in 1..MaxCount :
      \E m \in act :
        /\ pc = [p \in Procs |-> IF p = Scaler THEN "findAvailablePort" ELSE "idle"]
        /\ model = [p \in Procs |-> IF p = Scaler THEN m ELSE NoModel]
        /\ port = [p \in Procs |-> NoPort]
        /\ tmp = [h \in Handlers |-> 0]
        /\ scalingLock = Free
        /\ currentWorkers = [k \in Models |-> 0]
        /\ requestCounts = [k \in Models |-> 0]
        /\ nextPort = InitialNextPort
        /\ activeModels = RouterPool(act).am
        /\ tickChan = 0
        /\ scMetrics = ZeroMetrics
        /\ scTodo = {m}
        /\ scRequests = 0
        /\ scDesired = count
        /\ scCount = count
        /\ scI = 0
        /\ containers = RouterPool(act).cs
        /\ hRes = [h \in Handlers |-> NoResult]
        /\ reqs = 0
        /\ startCalls = RouterPool(act).sc
        /\ startFails = [k \in Models |-> 0]
        /\ recorded = [k \in Models |-> 0]
        /\ allocated = RouterPool(act).al
        /\ lastScaleDown = NoCall

NextScaleUp ==
    \/ MutexLock(Scaler)
    \/ \E ok \in BOOLEAN : DockerRun(Scaler, ok)
    \/ Store(Scaler)

SpecScaleUp == InitScaleUp /\ [][NextScaleUp]_vars

\* The body of scaleDownModel's loop, lines 103-109, run by itself for model m
\* between two cycles (inside scaleDownModel the loop's condition never lets
\* it run): port is the last of getModelPorts(m), stopOllamaContainer(m, port)
\* is called, and docker stop succeeds or fails.
StopIteration(m, ok) ==
    /\ pc[Scaler] = "wait"
    /\ getModelPorts(activeModels, m) # << >>
    /\ LET ports == getModelPorts(activeModels, m)
           st    == ScaleDownIteration([am |-> activeModels, cw |-> currentWorkers,
                                        cs |-> containers, n |-> 0, f |-> 0],
                                       m, ports[Len(ports)], ok)
       IN  /\ activeModels' = st.am
           /\ currentWorkers' = st.cw
           /\ containers' = st.cs
           /\ lastScaleDown' = [model |-> m,
                                count |-> 1,
                                desired |-> currentWorkers[m] - 1,
                                before |-> activeModels,
                                after |-> st.am,
                                liveBefore |-> LiveWorkers(containers, m),
                                liveAfter |-> LiveWorkers(st.cs, m),
                                workersBefore |-> currentWorkers[m],
                                workersAfter |-> st.cw[m],
                                stopCalls |-> st.n,
                                stopFails |-> st.f]
    /\ UNCHANGED << pc, model, port, tmp, scalingLock, requestCounts, nextPort, tickChan,
                    scMetrics, scTodo, scRequests, scDesired, scCount, scI, hRes, reqs,
                    startCalls, startFails, recorded, allocated >>

NextStop ==
    \/ Next
    \/ \E m \in Models, ok \in BOOLEAN : StopIteration(m, ok)

\* The program started from a pool scaleUpModel has grown, with the loop body
\* of scaleDownModel run on it at any time between two cycles.
SpecStop == InitScaled /\ [][NextStop]_vars

\* ------------------------------------------------------------------ claims

\* No request goroutine is inside generateHandler for model m.
NoRouteInProgress(m) == \A h \in Handlers : model[h] # m

\* C1: once all route calls for a model that was not registered have
\* returned, and no start call failed, exactly one start call was made for
\* the model and exactly one worker of it is running and registered.
C1_ExactlyOneStart ==
    \A m \in Models :
        (NoRouteInProgress(m) /\ startCalls[m] > 0 /\ startFails[m] = 0)
            => /\ startCalls[m] = 1
               /\ LiveWorkers(containers, m) = 1
               /\ activeModels[m] # NoPort

\* C2: no two running containers are bound to the same port.
C2_UniqueLivePorts ==
    \A i, j \in 1..Len(containers) :
        i # j => containers[i].port # containers[j].port

\* C3: every call of findAvailablePort returns: a goroutine that has called
\* it eventually gets past it.
C3_FindAvailablePortReturns ==
    (pc[Scaler] = "findAvailablePort") ~> (pc[Scaler] # "findAvailablePort")

\* C4: a scaleDownModel call leaves every model that was registered (and
\* every model that had a running worker) registered (and with a running
\* worker), whatever count it was given and whatever desired was.
C4_ScaleDownKeepsLastWorker ==
    lastScaleDown.model # NoModel =>
        /\ \A m \in Models :
               lastScaleDown.before[m] # NoPort => lastScaleDown.after[m] # NoPort
        /\ lastScaleDown.liveBefore >= 1 => lastScaleDown.liveAfter >= 1

\* C4's case: scaleDownModel was called for a registered model with running
\* workers when desired had computed to 0.
C4_Witness ==
    /\ lastScaleDown.model # NoModel
    /\ lastScaleDown.before[lastScaleDown.model] # NoPort
    /\ lastScaleDown.liveBefore >= 2
    /\ lastScaleDown.desired = 0
    /\ lastScaleDown.count >= 2

\* C5: the counter of a model equals the number of TrackRequest calls for it
\* completed since its last reset, and so does the value a cycle has read for
\* the model it is deciding.
C5_DemandCountedExactly ==
    /\ \A m \in Models :
           (\A h \in Handlers : ~(pc[h] = "incr" /\ model[h] = m))
               => requestCounts[m] = recorded[m]
    /\ pc[Scaler] \in {"reset", "findAvailablePort", "dockerRun", "Store"}
           => scRequests = recorded[model[Scaler]]

\* C5's case: a cycle has read a count of two requests, tracked by two
\* handlers, for the model it is deciding.
C5_Witness ==
    /\ pc[Scaler] = "reset"
    /\ scRequests = 2
    /\ recorded[model[Scaler]] = 2

\* C6: the ports handed out for provisioning are strictly increasing.
C6_PortsStrictlyIncreasing ==
    \A i, j \in 1..Len(allocated) : i < j => allocated[i] < allocated[j]

\* C7: a scaling cycle that has started eventually finishes, the loop being
\* back at its wait for the next tick.
C7_CycleFinishes ==
    (pc[Scaler] # "wait") ~> (pc[Scaler] = "wait")

C9_NoTickQueued ==
    pc[Scaler] # "wait" => tickChan = 0

\* C9, amended: at most one tick is ever queued (behind a running cycle or
\* not), and the one loop goroutine runs at most one cycle at a time.
C9_AtMostOneTickQueued ==
    /\ tickChan <= 1
    /\ Cardinality({ p \in Procs : pc[p] \in {"scaleModelsBasedOnDemand", "getActiveModels",
                                               "range", "reset", "findAvailablePort"} }) <= 1

\* C9's case: a tick has fired while a cycle is running and waits in the
\* channel.
C9_Witness ==
    /\ pc[Scaler] \in {"range", "reset"}
    /\ tickChan = 1

\* C10: when a cycle finds desired above the worker count, the number of
\* workers it sets out to start is desired minus the number of workers the
\* model actually has.
C10_ScaleUpStartsMissingWorkers ==
    (pc[Scaler] = "findAvailablePort" /\ scI = 0)
        => scCount = scDesired - LiveWorkers(containers, model[Scaler])

\* C11: the desired worker count a cycle computes is min(base, maxByVRAM),
\* with base = 1, plus 1 if GPU utilization is above 70, plus floor(requests/5)
\* if requests is above 10, and maxByVRAM = floor(vramUsed * 0.9 / 4000); it
\* is 0 when maxByVRAM is 0; 11 requests at GPU 0 give 3 when the cap allows,
\* 10 requests give 1.
C11_DesiredIsCappedBase ==
    pc[Scaler] \in {"findAvailablePort", "reset"} =>
        LET r    == scRequests
            gpu  == scMetrics.GPUUtilization
            base == 1 + (IF gpu > 70 THEN 1 ELSE 0) + (IF r > 10 THEN r \div 5 ELSE 0)
            cap  == (scMetrics.VRAMUsed * 9) \div 40000
        IN  /\ scDesired = IF base < cap THEN base ELSE cap
            /\ cap <= 0 => scDesired = 0
            /\ (r = 11 /\ gpu = 0 /\ cap >= 3) => scDesired = 3
            /\ (r = 10 /\ gpu = 0 /\ cap >= 1) => scDesired = 1

\* C11's case: a cycle has decided on 11 requests at GPU 0 with room in VRAM.
C11_Witness ==
    /\ pc[Scaler] = "findAvailablePort"
    /\ scRequests = 11
    /\ scMetrics = [GPUUtilization |-> 0, VRAMUsed |-> 20000]
    /\ scDesired = 3

C14_FailedProvisionSurfaces ==
    [][\A h \in Handlers :
          (/\ pc[h] = "dockerRun"
           /\ pc'[h] # "dockerRun"
           /\ startFails'[model[h]] = startFails[model[h]] + 1)
             => (/\ hRes'[h].status = "error"
                 /\ pc'[h] = "idle"
                 /\ startCalls' = startCalls
                 /\ activeModels' = activeModels
                 /\ currentWorkers' = currentWorkers
                 /\ containers' = containers)]_vars

\* C14's case: a request was answered with an error after its one start
\* call, and nothing is registered or running.
C14_Witness ==
    \E h \in Handlers, m \in Models :
        /\ pc[h] = "idle"
        /\ hRes[h].status = "error"
        /\ startCalls[m] = 1
        /\ startFails[m] = 1
        /\ activeModels[m] = NoPort
        /\ containers = << >>

\* C15: a request that finds its model in the registry is answered with the
\* registered port without a start call, and registry, port allocator and
\* runtime are as before; on its way there the request has only raised the
\* model's demand counter by one.
C15_RouteHitOnlyCountsDemand ==
    [][\A h \in Handlers :
          /\ (/\ pc[h] = "Load"
               /\ pc'[h] # "Load"
               /\ activeModels[model[h]] # NoPort)
                 => (/\ hRes'[h] = [status |-> "ok", port |-> activeModels[model[h]]]
                     /\ pc'[h] = "idle"
                     /\ startCalls' = startCalls
                     /\ activeModels' = activeModels
                     /\ currentWorkers' = currentWorkers
                     /\ nextPort' = nextPort
                     /\ allocated' = allocated
                     /\ containers' = containers
                     /\ requestCounts' = requestCounts)
          /\ (pc[h] = "incr" /\ pc'[h] # "incr")
                 => (/\ requestCounts' = [requestCounts EXCEPT ![model[h]] = @ + 1]
                     /\ pc'[h] = "Load"
                     /\ startCalls' = startCalls
                     /\ activeModels' = activeModels
                     /\ currentWorkers' = currentWorkers
                     /\ nextPort' = nextPort
                     /\ allocated' = allocated
                     /\ containers' = containers)]_vars

\* C15's case: two requests were answered with the same registered port and
\* one start call was made in all.
C15_Witness ==
    \E m \in Models :
        /\ \A h \in Handlers : pc[h] = "idle"
        /\ reqs = 2
        /\ hRes[1] = [status |-> "ok", port |-> activeModels[m]]
        /\ hRes[2] = hRes[1]
        /\ \A k \in Models : startCalls[k] = IF k = m THEN 1 ELSE 0
        /\ Len(containers) = 1

\* A cycle whose metrics are the zero reading (what a failed probe gives) is
\* past line 48.
ZeroReadingCycle ==
    /\ pc[Scaler] \in {"range", "reset", "findAvailablePort", "dockerRun", "Store"}
    /\ scMetrics = ZeroMetrics

\* C16: a cycle on the zero reading never enters scaleUpModel, whatever the
\* demand it reads (its desired count is 0); it is never blocked, it returns
\* only when it has visited every model of its snapshot, and it leaves each
\* of them with its demand counter at 0.
C16_ZeroReadingCycleStartsNothing ==
    /\ [](ZeroReadingCycle =>
            /\ pc[Scaler] \in {"range", "reset"}
            /\ pc[Scaler] = "reset" => scDesired = 0
            /\ \A r \in 0..MaxDemand : calculateDesiredWorkers(r, scMetrics) = 0
            /\ ENABLED ScalerStep)
    /\ [][ZeroReadingCycle =>
            /\ \A m \in scTodo \ scTodo' : requestCounts'[m] = 0
            /\ pc'[Scaler] = "wait" => scTodo = {}]_vars

\* C16's case: a cycle on the zero reading has decided on a model with
\* requests counted and goes on to reset its counter.
C16_Witness ==
    /\ ZeroReadingCycle
    /\ pc[Scaler] = "reset"
    /\ scRequests > 0
    /\ requestCounts[model[Scaler]] = scRequests

\* C17: whenever no request and no cycle is in progress, currentWorkers[m] is
\* the number of containers of m that were started and not stopped, for
\* every model m.
C17_WorkerCountMatchesPool ==
    (/\ \A h \in Handlers : pc[h] = "idle"
     /\ pc[Scaler] = "wait")
        => \A m \in Models : currentWorkers[m] = LiveWorkers(containers, m)

C19_NoWorkerOrphaned ==
    \A i \in 1..Len(containers) :
        \/ activeModels[containers[i].model] = containers[i].port
        \/ \E p \in Procs : /\ pc[p] = "Store"
                             /\ model[p] = containers[i].model
                             /\ port[p] = containers[i].port

\* C20: every entry of activeModels, every model of a cycle's snapshot and
\* every port a request was answered with has a container behind it that was
\* started on that port, and no stop call was issued.
C20_ActiveModelHasWorker ==
    /\ \A m \in Models :
          activeModels[m] # NoPort
              => \E i \in 1..Len(containers) :
                    containers[i] = [model |-> m, port |-> activeModels[m]]
    /\ \A m \in scTodo : LiveWorkers(containers, m) >= 1
    /\ \A h \in Handlers :
          hRes[h].status = "ok"
              => \E i \in 1..Len(containers) : containers[i].port = hRes[h].port
    /\ lastScaleDown # NoCall => lastScaleDown.stopCalls = 0

\* C20's case: a request was answered with the port of a registered model
\* while a cycle has that model in its snapshot.
C20_Witness ==
    \E h \in Handlers, m \in Models :
        /\ hRes[h] = [status |-> "ok", port |-> activeModels[m]]
        /\ pc[Scaler] = "range"
        /\ m \in scTodo

====
